---- MODULE Spec2Model ----
(***************************************************************************)
(* GoodBooks API (src/app/main.py) and its CSV loader                      *)
(* (src/ingest/loaddata.py) as a state machine.                            *)
(*                                                                         *)
(* The state is the five MongoDB collections, each a sequence of documents *)
(* in natural (insertion) order, the HTTP exchange being served with the   *)
(* handler's local variables, and the position of the loader.  A handler   *)
(* takes one step per round trip to the store; the loader, a separate      *)
(* process, takes one step per insert_one, so its inserts can land between *)
(* two reads of one request.                                               *)
(*                                                                         *)
(* Text is a sequence of one-character strings.  An optional parameter is  *)
(* the empty set (None / absent) or a singleton.  An integer field of a    *)
(* document is an integer; a floating-point field (average_rating,         *)
(* min_avg) is a number with one decimal or NaN; the summary's avg is      *)
(* carried in thousandths.                                                 *)
(***************************************************************************)
EXTENDS Integers, Sequences, FiniteSets, TLC

VARIABLES books, tags, book_tags, to_read, ratings,
          inflight, latest, prev, req, resp, store_calls, local, seen,
          frames, ldr

vars == <<books, tags, book_tags, to_read, ratings,
          inflight, latest, prev, req, resp, store_calls, local, seen,
          frames, ldr>>

catalog == <<books, tags, book_tags, to_read>>
loader == <<frames, ldr>>

(***************************************************************************)
(* Bounds of the model                                                     *)
(***************************************************************************)
MaxSeed == 3
MaxInflight == 2
MaxDocs == 3
MaxRows == 2
MaxRuns == 2

(***************************************************************************)
(* Program constants                                                       *)
(***************************************************************************)
MinRating == 1
MaxRating == 5
MaxPageSize == 100
API_KEY == "dev-key"

Buckets == MinRating..MaxRating

None == {}
Some(v) == {v}
Val(x) == CHOOSE v \in x : TRUE

\* sample identifiers and request values
Users == {7, 8}
BookIds == {1, 2}
RatingInputs == {0, 1, 3, 5, 6}
ApiKeys == {None, Some(API_KEY), Some("wrong")}
\* rating values a loaded ratings.csv can leave in the store
LoadedRatings == {0, 4, 5, 6}

Idle == [op |-> "idle"]

Min(a, b) == IF a < b THEN a ELSE b
Max(a, b) == IF a > b THEN a ELSE b

SeqsUpTo(S, n) == UNION {[1..k -> S] : k \in 0..n}

\* collection.find(filter) is SelectSeq(collection, filter): the matching
\* documents in natural order; count_documents(filter) is its length

(***************************************************************************)
(* HTTP surface: errors                                                    *)
(***************************************************************************)
HTTPException(code, msg) == [status_code |-> code, body |-> [detail |-> msg]]

\* FastAPI answers a request whose declared parameters fail validation
\* (a required header absent, Query(le=...) exceeded, Field(ge, le) broken)
RequestValidationError == [status_code |-> 422, body |-> [detail |-> "validation"]]

IsHTTPError(r) == r.status_code >= 400

(***************************************************************************)
(* require_key                                                             *)
(***************************************************************************)
\* x_api_key is None (header absent) or Some(text)
require_key(x_api_key) ==
    IF x_api_key # Some(API_KEY)
    THEN HTTPException(401, "invalid api key")
    ELSE [status_code |-> 200, body |-> x_api_key]

\* Header(alias="x-api-key") has no default: the header is required
HeaderPresent(x_api_key) == x_api_key # None

\* RatingIn.rating: int = Field(ge=1, le=5)
RatingInValid(r) == r.rating >= MinRating /\ r.rating <= MaxRating

(***************************************************************************)
(* Rating upsert: db.ratings.update_one(filter, {"$set": ...}, upsert=True)*)
(***************************************************************************)
RatingDoc(u, b, r) == [user_id |-> u, book_id |-> b, rating |-> r]

MatchesKey(d, r) == d.user_id = r.user_id /\ d.book_id = r.book_id

\* index of the first document matching the filter, 0 when none
FirstMatch(coll, r) ==
    LET hits == {i \in DOMAIN coll : MatchesKey(coll[i], r)}
    IN IF hits = {} THEN 0 ELSE CHOOSE i \in hits : \A j \in hits : i <= j

\* variant: $setOnInsert in place of $set leaves a matched document as it was
SetOnInsertOnly(d, r) == d

\* $set of r.model_dump() on the matched document
SetFields(d, r) ==
    [d EXCEPT !.user_id = r.user_id, !.book_id = r.book_id, !.rating = r.rating]

\* the insert half of an upsert: filter equalities plus the $set fields
UpsertedDoc(r) == RatingDoc(r.user_id, r.book_id, r.rating)

\* variant: insert_one in place of the upsert
insert_always(coll, r) == <<Append(coll, UpsertedDoc(r)), TRUE>>

\* update_one(..., upsert=True) run without interruption:
\* <<collection afterwards, upserted_id is set>>
update_one_upsert(coll, r) ==
    LET i == FirstMatch(coll, r)
    IN IF i = 0
       THEN <<Append(coll, UpsertedDoc(r)), TRUE>>
       ELSE <<[coll EXCEPT ![i] = SetFields(coll[i], r)], FALSE>>

Created == [status_code |-> 201, body |-> [status |-> "created"]]
Updated == [status_code |-> 200, body |-> [status |-> "updated"]]

UpsertReq(x_api_key, r) ==
    [op |-> "upsert_rating", x_api_key |-> x_api_key,
     user_id |-> r.user_id, book_id |-> r.book_id, rating |-> r.rating]

\* what POST /ratings answers before the handler body runs, or None
UpsertGate(x_api_key, r) ==
    IF ~HeaderPresent(x_api_key) THEN Some(RequestValidationError)
    ELSE IF IsHTTPError(require_key(x_api_key)) THEN Some(require_key(x_api_key))
    ELSE IF ~RatingInValid(r) THEN Some(RequestValidationError)
    ELSE None

(***************************************************************************)
(* Text, and the regular expressions the handlers build from parameters.   *)
(* A pattern is the parameter's text itself: "." stands for any character, *)
(* every other character of the model's alphabet for itself, and the "i"   *)
(* option folds case.                                                      *)
(***************************************************************************)
Lower(c) == IF c = "A" THEN "a" ELSE IF c = "B" THEN "b" ELSE c

\* code points, for the store's binary comparison of strings
CharCode(c) ==
    CASE c = "." -> 46 [] c = "A" -> 65 [] c = "B" -> 66
      [] c = "a" -> 97 [] c = "b" -> 98 [] c = "c" -> 99

RECURSIVE TextLess(_, _)
TextLess(s, t) ==
    IF t = <<>> THEN FALSE
    ELSE IF s = <<>> THEN TRUE
    ELSE IF CharCode(Head(s)) # CharCode(Head(t))
         THEN CharCode(Head(s)) < CharCode(Head(t))
    ELSE TextLess(Tail(s), Tail(t))

PatternCharMatches(p, c) == p = "." \/ Lower(p) = Lower(c)

MatchAt(pat, s, off) ==
    /\ off + Len(pat) <= Len(s)
    /\ \A i \in 1..Len(pat) : PatternCharMatches(pat[i], s[off + i])

\* {"$regex": pat, "$options": "i"}: the pattern is found somewhere in s
RegexSearch(pat, s) == \E off \in 0..Len(s) : MatchAt(pat, s, off)

\* {"$regex": f"^{pat}$", "$options": "i"}: the pattern spans the whole of s
RegexAnchored(pat, s) == Len(pat) = Len(s) /\ MatchAt(pat, s, 0)

(***************************************************************************)
(* Documents                                                               *)
(***************************************************************************)
\* a CSV cell, and a floating-point value of a document: a number (whole
\* part and tenths), text that is no number, or nothing (NaN)
Num(w, t) == [t |-> "num", whole |-> w, tenths |-> t]
Text(s) == [t |-> "text", v |-> s]
NaN == [t |-> "nan"]

Tenths(x) == x.whole * 10 + x.tenths

\* {"$gte": b} on a floating-point field: a number bound is matched by the
\* numbers not below it and never by NaN; the bound NaN is matched by NaN
\* alone
DoubleGte(a, b) ==
    IF b = NaN THEN a = NaN
    ELSE a # NaN /\ Tenths(a) >= Tenths(b)

\* the store's order of floating-point values: NaN before every number
DoubleLess(a, b) ==
    IF a = NaN THEN b # NaN
    ELSE b # NaN /\ Tenths(a) < Tenths(b)

ObjectId(n) == [oid |-> n]

\* to_safe: the _id is replaced by its string form
to_safe(doc) == [doc EXCEPT !._id = [str |-> doc._id.oid]]

ToSafeAll(docs) == [i \in DOMAIN docs |-> to_safe(docs[i])]

\* variant: the offset counted from 1
SkipLimitOneBased(docs, n, m) == SubSeq(docs, n + 2, Min(Len(docs), n + 1 + m))

\* cursor.skip(n).limit(m), and the slice [n : n + m] of a list
SkipLimit(docs, n, m) == SubSeq(docs, n + 1, Min(Len(docs), n + m))

(***************************************************************************)
(* validate_pagination, and the Query(20, le=100) of every listing         *)
(***************************************************************************)
validate_pagination(page, page_size) ==
    IF page < 1 THEN HTTPException(400, "page must be >= 1")
    ELSE IF page_size < 1 \/ page_size > MaxPageSize
         THEN HTTPException(400, "page_size must be in [1, 100]")
    ELSE [status_code |-> 200, body |-> <<page, page_size>>]

PageSizeQueryValid(page_size) == page_size <= MaxPageSize

\* what a listing answers before it touches the store, or None
PaginationGate(page, page_size) ==
    IF ~PageSizeQueryValid(page_size) THEN Some(RequestValidationError)
    ELSE IF IsHTTPError(validate_pagination(page, page_size))
         THEN Some(validate_pagination(page, page_size))
    ELSE None

Paginated(items, page, page_size, total) ==
    [status_code |-> 200,
     body |-> [items |-> items, page |-> page, page_size |-> page_size,
               total |-> total]]

(***************************************************************************)
(* The exchange being served.  req is the request, resp its response once  *)
(* the handler has returned (Idle until then), local the handler's local   *)
(* variables with pc the source line of the store call it makes next.      *)
(* seen is a ghost: the sizes the catalog collections have had since the   *)
(* request arrived and before it was answered (the collections only grow,  *)
(* so a size names a past content).                                        *)
(***************************************************************************)
NoLocal == [pc |-> 0]

Sizes == [books |-> Len(books), tags |-> Len(tags), book_tags |-> Len(book_tags),
          to_read |-> Len(to_read)]

Answered == req # Idle /\ resp # Idle

\* the request enters the handler: validation, before any store access
Arrive(request, gate, locals) ==
    /\ req = Idle
    /\ req' = request
    /\ seen' = {Sizes}
    /\ store_calls' = 0
    /\ IF gate # None
       THEN resp' = Val(gate) /\ local' = NoLocal
       ELSE resp' = Idle /\ local' = locals
    /\ UNCHANGED <<catalog, loader, ratings, inflight, latest, prev>>

\* a round trip to the store after which the handler goes on
Proceed(locals) ==
    /\ local' = locals
    /\ store_calls' = store_calls + 1
    /\ UNCHANGED <<catalog, loader, ratings, inflight, latest, prev, req, resp, seen>>

\* a round trip to the store after which the handler returns or raises
Return(answer) ==
    /\ resp' = answer
    /\ local' = NoLocal
    /\ store_calls' = store_calls + 1
    /\ UNCHANGED <<catalog, loader, ratings, inflight, latest, prev, req, seen>>

(***************************************************************************)
(* list_books                                                              *)
(***************************************************************************)
Truthy(x) == x # None /\ Val(x) # <<>>

SortNames == {"avg", "ratings_count", "year", "title"}
OrderNames == {"asc", "desc"}

sort_map == [avg |-> "average_rating", ratings_count |-> "ratings_count",
             year |-> "original_publication_year", title |-> "title"]

\* the store's order of two values of a sort field
FieldLess(field, a, b) ==
    IF field = "title" THEN TextLess(a, b)
    ELSE IF field = "average_rating" THEN DoubleLess(a, b)
    ELSE a < b

Without(docs, i) == SubSeq(docs, 1, i - 1) \o SubSeq(docs, i + 1, Len(docs))

RECURSIVE SortedCursors(_, _, _)
\* cursor.sort([(field, direction)]): every order of the documents in which
\* no document comes after one it should precede; the store leaves the
\* order of equal keys open
SortedCursors(docs, field, direction) ==
    IF docs = <<>> THEN {<<>>}
    ELSE LET Before(a, b) == IF direction = 1
                             THEN FieldLess(field, a[field], b[field])
                             ELSE FieldLess(field, b[field], a[field])
             firsts == {i \in DOMAIN docs :
                          \A j \in DOMAIN docs : ~Before(docs[j], docs[i])}
         IN UNION {{<<docs[i]>> \o rest :
                      rest \in SortedCursors(Without(docs, i), field, direction)} :
                   i \in firsts}

\* the filter built from q, min_avg, year_from and year_to
BaseFilter(d, p) ==
    /\ Truthy(p.q) =>
         \/ RegexSearch(Val(p.q), d.title)
         \/ RegexSearch(Val(p.q), d.authors)
    /\ p.min_avg # None => DoubleGte(d.average_rating, Val(p.min_avg))
    /\ p.year_from # None => d.original_publication_year >= Val(p.year_from)
    /\ p.year_to # None => d.original_publication_year <= Val(p.year_to)

InList(v, list) == \E i \in DOMAIN list : list[i] = v

\* filt, completed by the tag clause when the tag filter resolved to ids
Filt(d, p, goodreads_ids) ==
    /\ BaseFilter(d, p)
    /\ goodreads_ids # None => InList(d.goodreads_book_id, Val(goodreads_ids))

\* db.tags.find_one({"tag_name": {"$regex": f"^{tag}$", "$options": "i"}})
FindTag(tagColl, tag) == SelectSeq(tagColl, LAMBDA t : RegexAnchored(tag, t.tag_name))

\* [x["goodreads_book_id"] for x in db.book_tags.find({"tag_id": tg_id})]
GoodreadsIds(btColl, tg_id) ==
    LET rows == SelectSeq(btColl, LAMBDA x : x.tag_id = tg_id)
    IN [i \in DOMAIN rows |-> rows[i].goodreads_book_id]

\* what GET /books answers before the handler body runs, or None
ListBooksGate(p) ==
    IF p.sort \notin SortNames \/ p.order \notin OrderNames
    THEN Some(RequestValidationError)
    ELSE PaginationGate(p.page, p.page_size)

\* GET /books: validation and the filter; the tag filter, when given, is
\* resolved first
ListBooks(p) ==
    Arrive([op |-> "list_books"] @@ p, ListBooksGate(p),
           IF Truthy(p.tag) THEN [pc |-> 181]
           ELSE [pc |-> 199, goodreads_ids |-> None])

\* tag_doc = db.tags.find_one(...)
ListBooksFindTag ==
    /\ req.op = "list_books" /\ local.pc = 181
    /\ LET found == FindTag(tags, Val(req.tag))
       IN IF found = <<>>
          THEN Return(Paginated(<<>>, req.page, req.page_size, 0))
          ELSE Proceed([pc |-> 185, tg_id |-> found[1].tag_id])

\* gr_ids = list(db.book_tags.find({"tag_id": tg_id}, ...))
ListBooksFindBookTags ==
    /\ req.op = "list_books" /\ local.pc = 185
    /\ LET goodreads_ids == GoodreadsIds(book_tags, local.tg_id)
       IN IF goodreads_ids = <<>>
          THEN Return(Paginated(<<>>, req.page, req.page_size, 0))
          ELSE Proceed([pc |-> 199, goodreads_ids |-> Some(goodreads_ids)])

\* total = db.books.count_documents(filt)
ListBooksCount ==
    /\ req.op = "list_books" /\ local.pc = 199
    /\ Proceed([pc |-> 200, goodreads_ids |-> local.goodreads_ids,
                total |-> Len(SelectSeq(books,
                                LAMBDA d : Filt(d, req, local.goodreads_ids)))])

\* cursor = db.books.find(filt).sort(...).skip(...).limit(...)
ListBooksFind ==
    /\ req.op = "list_books" /\ local.pc = 200
    /\ LET direction == IF req.order = "desc" THEN 0 - 1 ELSE 1
           matched == SelectSeq(books, LAMBDA d : Filt(d, req, local.goodreads_ids))
       IN \E cursor \in SortedCursors(matched, sort_map[req.sort], direction) :
            Return(Paginated(
                     ToSafeAll(SkipLimit(cursor, (req.page - 1) * req.page_size,
                                         req.page_size)),
                     req.page, req.page_size, local.total))

(***************************************************************************)
(* book_tags                                                               *)
(***************************************************************************)
\* GET /books/{book_id}/tags
BookTags(book_id, page, page_size) ==
    Arrive([op |-> "book_tags", book_id |-> book_id,
            page |-> page, page_size |-> page_size],
           PaginationGate(page, page_size), [pc |-> 225])

\* book = db.books.find_one({"book_id": int(book_id)})
BookTagsFindBook ==
    /\ req.op = "book_tags" /\ local.pc = 225
    /\ LET found == SelectSeq(books, LAMBDA d : d.book_id = req.book_id)
       IN IF found = <<>>
          THEN Return(HTTPException(404, "book not found"))
          ELSE Proceed([pc |-> 229, gid |-> found[1].goodreads_book_id])

\* tag_ids = [x["tag_id"] for x in db.book_tags.find(...)], total, slice_ids
BookTagsFindBookTags ==
    /\ req.op = "book_tags" /\ local.pc = 229
    /\ LET rows == SelectSeq(book_tags, LAMBDA x : x.goodreads_book_id = local.gid)
           tag_ids == [i \in DOMAIN rows |-> rows[i].tag_id]
       IN Proceed([pc |-> 232, total |-> Len(tag_ids),
                   slice_ids |-> SkipLimit(tag_ids, (req.page - 1) * req.page_size,
                                           req.page_size)])

\* items = [to_safe(t) for t in db.tags.find({"tag_id": {"$in": slice_ids}})]
BookTagsFindTags ==
    /\ req.op = "book_tags" /\ local.pc = 232
    /\ LET items == SelectSeq(tags, LAMBDA t : InList(t.tag_id, local.slice_ids))
       IN Return(Paginated(ToSafeAll(items), req.page, req.page_size, local.total))

(***************************************************************************)
(* author_books                                                            *)
(***************************************************************************)
\* filt of author_books
AuthorFilt(d, r) ==
    IF r.exact THEN RegexAnchored(r.author_name, d.authors)
    ELSE RegexSearch(r.author_name, d.authors)

\* GET /authors/{author_name}/books
AuthorBooks(author_name, exact, page, page_size) ==
    Arrive([op |-> "author_books", author_name |-> author_name, exact |-> exact,
            page |-> page, page_size |-> page_size],
           PaginationGate(page, page_size), [pc |-> 243])

\* total = db.books.count_documents(filt)
AuthorBooksCount ==
    /\ req.op = "author_books" /\ local.pc = 243
    /\ Proceed([pc |-> 244,
                total |-> Len(SelectSeq(books, LAMBDA d : AuthorFilt(d, req)))])

\* items = [to_safe(x) for x in db.books.find(filt).skip(...).limit(...)]
AuthorBooksFind ==
    /\ req.op = "author_books" /\ local.pc = 244
    /\ LET found == SelectSeq(books, LAMBDA d : AuthorFilt(d, req))
       IN Return(Paginated(
                   ToSafeAll(SkipLimit(found, (req.page - 1) * req.page_size,
                                       req.page_size)),
                   req.page, req.page_size, local.total))

(***************************************************************************)
(* list_tags                                                               *)
(***************************************************************************)
\* GET /tags
ListTags(page, page_size) ==
    Arrive([op |-> "list_tags", page |-> page, page_size |-> page_size],
           PaginationGate(page, page_size), [pc |-> 251])

\* total = db.tags.count_documents({})
ListTagsCount ==
    /\ req.op = "list_tags" /\ local.pc = 251
    /\ Proceed([pc |-> 252, total |-> Len(tags)])

\* tags = list(db.tags.find({}).skip(...).limit(...))
ListTagsFind ==
    /\ req.op = "list_tags" /\ local.pc = 252
    /\ Proceed([pc |-> 255, total |-> local.total,
                tags |-> SkipLimit(tags, (req.page - 1) * req.page_size,
                                   req.page_size)])

\* counts = {...db.book_tags.aggregate($match tag_ids, $group, $sum 1)},
\* then the loop that adds book_count to each tag of the page
ListTagsAggregate ==
    /\ req.op = "list_tags" /\ local.pc = 255
    /\ LET cnt(t) == Len(SelectSeq(book_tags, LAMBDA x : x.tag_id = t.tag_id))
           items == [i \in DOMAIN local.tags |->
                       to_safe(local.tags[i]) @@ [book_count |-> cnt(local.tags[i])]]
       IN Return(Paginated(items, req.page, req.page_size, local.total))

(***************************************************************************)
(* user_to_read                                                            *)
(***************************************************************************)
RECURSIVE LookupUnwind(_, _)
\* $lookup of books by book_id, then $unwind: one row per joined book
LookupUnwind(rows, bookColl) ==
    IF rows = <<>> THEN <<>>
    ELSE SelectSeq(bookColl, LAMBDA d : d.book_id = Head(rows).book_id)
         \o LookupUnwind(Tail(rows), bookColl)

\* GET /users/{user_id}/to-read
UserToRead(user_id, page, page_size) ==
    Arrive([op |-> "user_to_read", user_id |-> user_id,
            page |-> page, page_size |-> page_size],
           PaginationGate(page, page_size), [pc |-> 283])

\* items = [to_safe(x["book"]) for x in db.to_read.aggregate(pipeline)]
UserToReadAggregate ==
    /\ req.op = "user_to_read" /\ local.pc = 283
    /\ LET matched == SelectSeq(to_read, LAMBDA x : x.user_id = req.user_id)
           joined == LookupUnwind(matched, books)
       IN Proceed([pc |-> 284,
                   items |-> ToSafeAll(SkipLimit(joined,
                                                 (req.page - 1) * req.page_size,
                                                 req.page_size))])

\* total = db.to_read.count_documents({"user_id": int(user_id)})
UserToReadCount ==
    /\ req.op = "user_to_read" /\ local.pc = 284
    /\ LET total == Len(SelectSeq(to_read, LAMBDA x : x.user_id = req.user_id))
       IN Return(Paginated(local.items, req.page, req.page_size, total))

\* ghost: the rating of the latest successful upsert per (user_id, book_id)
NoLatest == [k \in Users \X BookIds |-> 0]

ServeUpsert(x_api_key, r, coll, answer) ==
    /\ req' = UpsertReq(x_api_key, r)
    /\ resp' = answer
    /\ ratings' = coll
    /\ latest' = IF answer.status_code < 300
                 THEN [latest EXCEPT ![<<r.user_id, r.book_id>>] = r.rating]
                 ELSE latest

\* POST /ratings, the store's update running without interruption
UpsertRating(x_api_key, r) ==
    /\ req = Idle
    /\ LET gate == UpsertGate(x_api_key, r)
           res == update_one_upsert(ratings, r)
       IN IF gate # None
          THEN /\ ServeUpsert(x_api_key, r, ratings, Val(gate))
               /\ store_calls' = 0
          ELSE /\ ServeUpsert(x_api_key, r, res[1],
                              IF res[2] THEN Created ELSE Updated)
               /\ store_calls' = 1
    /\ UNCHANGED <<catalog, loader, inflight, prev, local, seen>>

(***************************************************************************)
(* The same update with another request between its two phases.  MongoDB   *)
(* runs the query phase of an upsert and, when nothing matched, inserts;   *)
(* only a unique index on the filter fields serialises two such upserts,   *)
(* and neither the API nor the loader creates one.                         *)
(***************************************************************************)
\* query phase of update_one: nothing matches, the insert is still to come
UpsertQueryPhase(r) ==
    /\ UpsertGate(Some(API_KEY), r) = None
    /\ FirstMatch(ratings, r) = 0
    /\ r \notin inflight
    /\ Cardinality(inflight) < MaxInflight
    /\ Len(ratings) + Cardinality(inflight) < MaxDocs
    /\ inflight' = inflight \cup {r}
    /\ UNCHANGED <<catalog, loader, ratings, latest, prev, req, resp, store_calls,
                   local, seen>>

\* insert phase: the document is inserted and the handler answers "created"
UpsertInsertPhase(r) ==
    /\ req = Idle
    /\ r \in inflight
    /\ inflight' = inflight \ {r}
    /\ ServeUpsert(Some(API_KEY), r, Append(ratings, UpsertedDoc(r)), Created)
    /\ store_calls' = 1
    /\ UNCHANGED <<catalog, loader, prev, local, seen>>

(***************************************************************************)
(* ratings_summary                                                         *)
(***************************************************************************)
\* variant: the $match stage left out
GroupAllBooks(coll, book_id) ==
    LET keys == {coll[i].rating : i \in DOMAIN coll}
    IN {<<k, Len(SelectSeq(coll, LAMBDA d : d.rating = k))>> : k \in keys}

\* $match book_id, $group by rating with count: the set of <<_id, count>>
GroupByRating(coll, book_id) ==
    LET matched == SelectSeq(coll, LAMBDA d : d.book_id = book_id)
        keys == {matched[i].rating : i \in DOMAIN matched}
    IN {<<k, Len(SelectSeq(matched, LAMBDA d : d.rating = k))>> : k \in keys}

EmptySummary == [buckets |-> [i \in Buckets |-> 0], total |-> 0, sumv |-> 0]

RECURSIVE SummaryLoop(_, _)
\* the for loop over the aggregation's groups
SummaryLoop(groups, acc) ==
    IF groups = {} THEN acc
    ELSE LET g == CHOOSE x \in groups : TRUE
             r == g[1]
             c == g[2]
             nxt == IF MinRating <= r /\ r <= MaxRating
                    THEN [buckets |-> [acc.buckets EXCEPT ![r] = c],
                          total |-> acc.total + c,
                          sumv |-> acc.sumv + r * c]
                    ELSE acc
         IN SummaryLoop(groups \ {g}, nxt)

\* the significand of a float holds 52 bits after the leading one
MantissaBits == 52

RECURSIVE Normalise(_, _)
\* <<s, t>> with s / t the quotient num / den scaled by a power of two into
\* [1, 2)
Normalise(s, t) ==
    IF s >= 2 * t THEN Normalise(s, 2 * t)
    ELSE IF s < t THEN Normalise(2 * s, t)
    ELSE <<s, t>>

RECURSIVE LongDivision(_, _, _, _)
\* n more binary digits of rem / t: <<remainder, last digit>>
LongDivision(rem, t, last, n) ==
    IF n = 0 THEN <<rem, last>>
    ELSE IF 2 * rem >= t THEN LongDivision(2 * rem - t, t, 1, n - 1)
    ELSE LongDivision(2 * rem, t, 0, n - 1)

\* sumv / total is the float nearest the quotient (ties to the even
\* significand): 1 when that float is above the quotient, -1 when below,
\* 0 when the quotient is a float
FloatError(num, den) ==
    LET st == Normalise(num, den)
        t == st[2]
        d == LongDivision(st[1] - t, t, 1, MantissaBits)
        rem == d[1]
    IN IF rem = 0 THEN 0
       ELSE IF 2 * rem > t THEN 1
       ELSE IF 2 * rem < t THEN 0 - 1
       ELSE IF d[2] = 1 THEN 1 ELSE 0 - 1

\* round(num / den, 3) in thousandths (num, den > 0): round() rounds the
\* float it is given, so a quotient exactly half way between two thousandths
\* goes the way the division's rounding error points, and to the even
\* thousandth only when the float is the quotient itself
Round3(num, den) ==
    LET n == num * 1000
        q == n \div den
        rem == n % den
    IN IF 2 * rem < den THEN q
       ELSE IF 2 * rem > den THEN q + 1
       ELSE IF FloatError(num, den) > 0 THEN q + 1
       ELSE IF FloatError(num, den) < 0 THEN q
       ELSE IF q % 2 = 0 THEN q ELSE q + 1

ratings_summary(coll, book_id) ==
    LET acc == SummaryLoop(GroupByRating(coll, book_id), EmptySummary)
        avg == IF acc.total # 0 THEN Round3(acc.sumv, acc.total) ELSE 0
    IN [status_code |-> 200,
        body |-> [avg |-> avg, count |-> acc.total, histogram |-> acc.buckets]]

\* GET /books/{book_id}/ratings/summary
RatingsSummary(book_id) ==
    /\ req = Idle
    /\ req' = [op |-> "ratings_summary", book_id |-> book_id]
    /\ resp' = ratings_summary(ratings, book_id)
    /\ store_calls' = 1
    /\ UNCHANGED <<catalog, loader, ratings, inflight, latest, prev, local, seen>>

(***************************************************************************)
(* log_requests: the middleware's finally block ends the exchange          *)
(***************************************************************************)
NoPrev == [op |-> "none"]

LogRequest ==
    /\ Answered
    /\ prev' = IF req.op = "upsert_rating" /\ resp.status_code < 300
               THEN [op |-> "upsert_rating", user_id |-> req.user_id,
                     book_id |-> req.book_id, rating |-> req.rating,
                     status |-> resp.body.status]
               ELSE prev
    /\ req' = Idle
    /\ resp' = Idle
    /\ store_calls' = 0
    /\ local' = NoLocal
    /\ seen' = {}
    /\ UNCHANGED <<catalog, loader, ratings, inflight, latest>>

(***************************************************************************)
(* The loader (src/ingest/loaddata.py).  A CSV cell is a number (whole     *)
(* part and tenths), text that is no number, or nothing (NaN); a frame is  *)
(* its set of columns and its rows, each a function on the columns.  Text  *)
(* columns of the modelled CSVs hold text or nothing.                      *)
(***************************************************************************)
arr == <<"books", "ratings", "tags", "book_tags", "to_read">>

dtype_map ==
    [books |-> [book_id |-> "long", goodreads_book_id |-> "long",
                title |-> "string", authors |-> "string",
                original_publication_year |-> "long",
                average_rating |-> "double", ratings_count |-> "long",
                image_url |-> "string", small_image_url |-> "string"],
     ratings |-> [user_id |-> "long", book_id |-> "long", rating |-> "long"],
     tags |-> [tag_id |-> "long", tag_name |-> "string"],
     book_tags |-> [goodreads_book_id |-> "long", tag_id |-> "long", count |-> "long"],
     to_read |-> [user_id |-> "long", book_id |-> "long"]]

\* pd.to_numeric(errors="coerce")
to_numeric(cell) == IF cell.t = "num" THEN cell ELSE NaN

\* astype("int64") truncates; astype("float64") keeps the value and NaN
astype_int64(cell) == Num(cell.whole, 0)
astype_float64(cell) == cell
\* astype(str): nothing becomes the text "nan"
astype_str(cell) ==
    CASE cell.t = "text" -> cell
      [] cell.t = "nan" -> Text(<<"n", "a", "n">>)

\* the conversion a coercion step applies to every cell of a column
Convert(how, cell) ==
    CASE how = "to_numeric" -> to_numeric(cell)
      [] how = "int64" -> astype_int64(cell)
      [] how = "float64" -> astype_float64(cell)
      [] how = "str" -> astype_str(cell)

\* df.loc[:, col] = <the column converted>
SetColumn(rows, col, how) ==
    [i \in DOMAIN rows |-> [rows[i] EXCEPT ![col] = Convert(how, rows[i][col])]]

\* df.dropna(subset=[col])
dropna(rows, col) == SelectSeq(rows, LAMBDA r : r[col] # NaN)

\* variant: rows with an unparseable "double" are dropped as well
CoerceColumnDropAll(rows, col, typ) ==
    CASE typ = "long" ->
           SetColumn(dropna(SetColumn(rows, col, "to_numeric"), col), col, "int64")
      [] typ = "double" ->
           SetColumn(dropna(SetColumn(rows, col, "to_numeric"), col), col, "float64")
      [] typ = "string" -> SetColumn(rows, col, "str")

\* one turn of the loop over dtypes.items()
CoerceColumn(rows, col, typ) ==
    CASE typ = "long" ->
           SetColumn(dropna(SetColumn(rows, col, "to_numeric"), col), col, "int64")
      [] typ = "double" ->
           SetColumn(SetColumn(rows, col, "to_numeric"), col, "float64")
      [] typ = "string" -> SetColumn(rows, col, "str")

RECURSIVE CoerceColumns(_, _, _)
CoerceColumns(rows, cols, dtypes) ==
    IF cols = {} THEN rows
    ELSE LET col == CHOOSE c \in cols : TRUE
         IN CoerceColumns(CoerceColumn(rows, col, dtypes[col]), cols \ {col}, dtypes)

\* _coerce_dtypes: the frame cut to the expected columns it has, coerced
coerce_dtypes(df, dtypes) ==
    LET cols == DOMAIN dtypes \cap df.columns
        cut == [i \in DOMAIN df.rows |-> [c \in cols |-> df.rows[i][c]]]
    IN [columns |-> cols, rows |-> CoerceColumns(cut, cols, dtypes)]

\* load_data: read_csv, then _coerce_dtypes (every modelled dtypes is non-empty)
load_data(name) == coerce_dtypes(frames[name], dtype_map[name])

LoaderOff == [pc |-> "off", i |-> 0, k |-> 0, run |-> 0]

Coll(name) ==
    CASE name = "books" -> books [] name = "ratings" -> ratings
      [] name = "tags" -> tags [] name = "book_tags" -> book_tags
      [] name = "to_read" -> to_read

\* row.to_dict(): an integer for a column coerced to 'long', the text for
\* one coerced to 'string', the number or NaN for one coerced to 'double'
to_dict(row, dtypes) ==
    [c \in DOMAIN row |->
        CASE dtypes[c] = "long" -> row[c].whole
          [] dtypes[c] = "string" -> row[c].v
          [] dtypes[c] = "double" -> row[c]]

\* collection.insert_one(doc)
InsertOne(name, doc) ==
    LET put(coll) == Append(coll, doc @@ [_id |-> ObjectId(Len(coll) + 1)])
    IN /\ books' = IF name = "books" THEN put(books) ELSE books
       /\ ratings' = IF name = "ratings" THEN put(ratings) ELSE ratings
       /\ tags' = IF name = "tags" THEN put(tags) ELSE tags
       /\ book_tags' = IF name = "book_tags" THEN put(book_tags) ELSE book_tags
       /\ to_read' = IF name = "to_read" THEN put(to_read) ELSE to_read

ApiUntouched == UNCHANGED <<inflight, latest, prev, req, resp, store_calls, local>>

\* main() is started (again)
StartLoader ==
    /\ ldr.pc \in {"off", "done"}
    /\ ldr.run < MaxRuns
    /\ ldr' = [pc |-> "loading", i |-> 1, k |-> 0, run |-> ldr.run + 1]
    /\ UNCHANGED <<catalog, ratings, frames, seen>>
    /\ ApiUntouched

\* one turn of the loop over data.iterrows()
InsertRow ==
    /\ ldr.pc = "loading"
    /\ LET data == load_data(arr[ldr.i])
       IN /\ ldr.k < Len(data.rows)
          /\ InsertOne(arr[ldr.i], to_dict(data.rows[ldr.k + 1], dtype_map[arr[ldr.i]]))
    /\ ldr' = [ldr EXCEPT !.k = ldr.k + 1]
    /\ seen' = IF req # Idle /\ resp = Idle THEN seen \cup {Sizes'} ELSE seen
    /\ UNCHANGED frames
    /\ ApiUntouched

\* the rows of one frame are exhausted: the next source, or the end of main()
NextSource ==
    /\ ldr.pc = "loading"
    /\ ldr.k = Len(load_data(arr[ldr.i]).rows)
    /\ ldr' = IF ldr.i < Len(arr)
              THEN [ldr EXCEPT !.i = ldr.i + 1, !.k = 0]
              ELSE [ldr EXCEPT !.pc = "done"]
    /\ UNCHANGED <<catalog, ratings, frames, seen>>
    /\ ApiUntouched

\* the CSV snapshots a run fetches
Frame(cols, rows) == [columns |-> cols, rows |-> rows]

BookCsvRow(id, avg, title) ==
    [book_id |-> id, goodreads_book_id |-> Num(100, 0), title |-> title,
     authors |-> Text(<<"a">>), original_publication_year |-> Num(1965, 0),
     average_rating |-> avg, ratings_count |-> Num(500, 0),
     image_url |-> Text(<<"b">>), small_image_url |-> Text(<<"b">>),
     isbn |-> Text(<<"c">>)]

BookCsvRows ==
    {BookCsvRow(id, avg, title) :
        id \in {Num(1, 0), Text(<<"a">>)},
        avg \in {Num(4, 2), Text(<<"b">>)},
        title \in {Text(<<"B", "a">>), NaN}}

RatingCsvRows ==
    {[user_id |-> Num(7, 0), book_id |-> Num(1, 0), rating |-> r] :
        r \in {Num(5, 0), Num(4, 5), Text(<<"a">>), NaN}}

BookCsvColumns ==
    {"book_id", "goodreads_book_id", "title", "authors",
     "original_publication_year", "average_rating", "ratings_count",
     "image_url", "small_image_url", "isbn"}

FrameSets ==
    [books : {Frame(BookCsvColumns, rows) : rows \in SeqsUpTo(BookCsvRows, MaxRows)},
     ratings : {Frame({"user_id", "book_id", "rating"}, rows) :
                   rows \in SeqsUpTo(RatingCsvRows, MaxRows)},
     tags : {Frame({"tag_id"}, <<[tag_id |-> Num(1, 0)]>>)},
     book_tags : {Frame({"goodreads_book_id", "tag_id", "count"},
                        <<[goodreads_book_id |-> Num(100, 0), tag_id |-> Text(<<"a">>),
                           count |-> Num(5, 0)]>>)},
     to_read : {Frame({"user_id", "book_id"},
                      <<[user_id |-> Num(7, 0), book_id |-> Num(1, 0)]>>)}]

(***************************************************************************)
(* Specifications of the rating endpoints                                  *)
(***************************************************************************)
RatingIns == [user_id : Users, book_id : BookIds, rating : RatingInputs]

EmptyCatalog ==
    /\ books = <<>> /\ tags = <<>> /\ book_tags = <<>> /\ to_read = <<>>

LoaderIdle ==
    /\ frames = <<>>
    /\ ldr = LoaderOff

ApiIdle ==
    /\ inflight = {} /\ latest = NoLatest /\ prev = NoPrev
    /\ req = Idle /\ resp = Idle /\ store_calls = 0
    /\ local = NoLocal /\ seen = {}

\* sequential requests against an empty Rating collection
InitRatings ==
    /\ EmptyCatalog /\ LoaderIdle /\ ApiIdle
    /\ ratings = <<>>

NextRatings ==
    \/ req = Idle /\ \E k \in ApiKeys, r \in RatingIns : UpsertRating(k, r)
    \/ req = Idle /\ \E b \in BookIds : RatingsSummary(b)
    \/ LogRequest

SpecRatings == InitRatings /\ [][NextRatings]_vars

\* the API over a Rating collection as a loader run (or rerun) left it
SeedDocs == {RatingDoc(u, b, r) : u \in Users, b \in BookIds, r \in LoadedRatings}

InitSummary ==
    /\ EmptyCatalog /\ LoaderIdle /\ ApiIdle
    /\ ratings \in SeqsUpTo(SeedDocs, MaxSeed)

NextSummary ==
    \/ req = Idle /\ \E b \in BookIds : RatingsSummary(b)
    \/ LogRequest

SpecSummary == InitSummary /\ [][NextSummary]_vars

\* number of Rating documents with the given key
KeyCount(coll, u, b) ==
    Cardinality({i \in DOMAIN coll : coll[i].user_id = u /\ coll[i].book_id = b})

OnePerKey(coll) == \A u \in Users, b \in BookIds : KeyCount(coll, u, b) <= 1

\* overlapping upserts, from a collection with at most one document per key
InitConcurrent ==
    /\ EmptyCatalog /\ LoaderIdle /\ ApiIdle
    /\ ratings \in {s \in SeqsUpTo(SeedDocs, 1) : OnePerKey(s)}

\* the requests that overlap: one user rating either book 3 or 5
OverlapIns == [user_id : {7}, book_id : BookIds, rating : {3, 5}]

NextConcurrent ==
    \/ req = Idle /\ \E r \in OverlapIns : UpsertRating(Some(API_KEY), r)
    \/ \E r \in OverlapIns : UpsertQueryPhase(r)
    \/ req = Idle /\ \E r \in OverlapIns : UpsertInsertPhase(r)
    \/ LogRequest

SpecConcurrent == InitConcurrent /\ [][NextConcurrent]_vars

(***************************************************************************)
(* Specification of the listing endpoints: the loader fills the catalog    *)
(* from empty collections, and runs again, while requests are served       *)
(***************************************************************************)
CatalogBook(id, gid, title, authors, year, avg, cnt) ==
    [book_id |-> Num(id, 0), goodreads_book_id |-> Num(gid, 0),
     title |-> Text(title), authors |-> Text(authors),
     original_publication_year |-> Num(year, 0), average_rating |-> avg,
     ratings_count |-> Num(cnt, 0),
     image_url |-> Text(<<"b">>), small_image_url |-> Text(<<"b">>),
     isbn |-> Text(<<"c">>)]

\* the CSV snapshots of the catalog the runs fetch
CatalogFrames ==
    [books : {Frame(BookCsvColumns,
                    << CatalogBook(1, 100, <<"B", "a">>, <<"a", "b">>, 1965, Num(4, 2), 500),
                       CatalogBook(2, 200, <<"a">>, <<"a">>, 2000, avg, 10) >>) :
                 avg \in {Num(4, 2), Text(<<"b">>)}},
     ratings : {Frame({"user_id", "book_id", "rating"}, <<>>)},
     tags : {Frame({"tag_id", "tag_name"},
                   <<[tag_id |-> Num(1, 0), tag_name |-> Text(<<"a">>)]>>)},
     book_tags : {Frame({"goodreads_book_id", "tag_id", "count"},
                        << [goodreads_book_id |-> Num(100, 0), tag_id |-> Num(1, 0),
                            count |-> Num(5, 0)],
                           [goodreads_book_id |-> Num(200, 0), tag_id |-> Num(1, 0),
                            count |-> Num(2, 0)] >>)},
     to_read : {Frame({"user_id", "book_id"},
                      << [user_id |-> Num(7, 0), book_id |-> Num(9, 0)],
                         [user_id |-> Num(7, 0), book_id |-> Num(1, 0)] >>)}]

InitListing ==
    /\ EmptyCatalog /\ ApiIdle
    /\ ratings = <<>>
    /\ ldr = LoaderOff
    /\ frames \in CatalogFrames

\* request values
Paginations == {<<1, 1>>, <<2, 1>>, <<1, 2>>, <<0, 1>>, <<1, 0>>, <<1, 101>>}
QInputs == {None, Some(<<"A">>)}
TagInputs == {None, Some(<<>>), Some(<<"A">>), Some(<<".">>), Some(<<"c">>)}
MinAvgInputs == {None, Some(Num(4, 0)), Some(NaN)}
YearInputs == {<<None, None>>, <<Some(1970), None>>, <<None, Some(1970)>>}
SortInputs == {<<"avg", "desc">>, <<"title", "asc">>, <<"year", "asc">>,
               <<"ratings_count", "desc">>, <<"rating", "desc">>}
AuthorInputs == {<<"a">>, <<"A", "B">>, <<"c">>}

ListBooksRequest(q, t, m, y, so, pg) ==
    [q |-> q, tag |-> t, min_avg |-> m, year_from |-> y[1], year_to |-> y[2],
     sort |-> so[1], order |-> so[2], page |-> pg[1], page_size |-> pg[2]]

\* every combination of filters under one sort and two windows, and every
\* sort and window with and without the tag filter
ListBooksParams ==
    {ListBooksRequest(q, t, m, y, <<"title", "asc">>, pg) :
        q \in QInputs, t \in TagInputs, m \in MinAvgInputs, y \in YearInputs,
        pg \in {<<1, 2>>, <<2, 1>>}}
    \cup
    {ListBooksRequest(None, t, None, <<None, None>>, so, pg) :
        t \in {None, Some(<<"A">>)}, so \in SortInputs, pg \in Paginations}

NextListing ==
    \/ req = Idle /\ \E p \in ListBooksParams : ListBooks(p)
    \/ ListBooksFindTag
    \/ ListBooksFindBookTags
    \/ ListBooksCount
    \/ ListBooksFind
    \/ req = Idle /\ \E b \in {1, 9}, pg \in Paginations : BookTags(b, pg[1], pg[2])
    \/ BookTagsFindBook
    \/ BookTagsFindBookTags
    \/ BookTagsFindTags
    \/ req = Idle /\ \E a \in AuthorInputs, e \in BOOLEAN, pg \in Paginations :
                        AuthorBooks(a, e, pg[1], pg[2])
    \/ AuthorBooksCount
    \/ AuthorBooksFind
    \/ req = Idle /\ \E pg \in Paginations : ListTags(pg[1], pg[2])
    \/ ListTagsCount
    \/ ListTagsFind
    \/ ListTagsAggregate
    \/ req = Idle /\ \E u \in {7, 8}, pg \in Paginations : UserToRead(u, pg[1], pg[2])
    \/ UserToReadAggregate
    \/ UserToReadCount
    \/ LogRequest
    \/ StartLoader
    \/ InsertRow
    \/ NextSource

SpecListing == InitListing /\ [][NextListing]_vars

\* loader runs over the fetched snapshots, from empty collections
InitLoader ==
    /\ EmptyCatalog /\ ApiIdle
    /\ ratings = <<>>
    /\ ldr = LoaderOff
    /\ frames \in FrameSets

NextLoader == StartLoader \/ InsertRow \/ NextSource

SpecLoader == InitLoader /\ [][NextLoader]_vars

(***************************************************************************)
(* Properties of the rating endpoints                                      *)
(***************************************************************************)
\* C1: after any interleaving of upsert_rating requests the collection
\* holds at most one Rating document per (user_id, book_id).
C1_OnePerKey == OnePerKey(ratings)

\* a step in which POST /ratings is answered
UpsertStep == req = Idle /\ req'.op = "upsert_rating"

AuthorizedStep ==
    /\ UpsertStep
    /\ req'.x_api_key = Some(API_KEY)
    /\ req'.rating \in Buckets

\* C2: an authorized upsert with rating in [1,5] answers "created" (201)
\* exactly when no document with its key existed before the call and
\* "updated" (200) otherwise; an upsert that follows a "created" one for the
\* same key with another rating answers "updated" and leaves exactly one
\* document for the key, holding the second rating.
C2_CreatedThenUpdated ==
    [][AuthorizedStep =>
        /\ IF KeyCount(ratings, req'.user_id, req'.book_id) = 0
           THEN resp' = Created ELSE resp' = Updated
        /\ ( /\ prev.op = "upsert_rating"
             /\ prev.status = "created"
             /\ prev.user_id = req'.user_id
             /\ prev.book_id = req'.book_id
             /\ prev.rating # req'.rating )
           => /\ resp' = Updated
              /\ KeyCount(ratings', req'.user_id, req'.book_id) = 1
              /\ \A i \in DOMAIN ratings' :
                    MatchesKey(ratings'[i], req') => ratings'[i].rating = req'.rating
      ]_vars

C2_Witness ==
    /\ req.op = "upsert_rating"
    /\ resp = Updated
    /\ prev.op = "upsert_rating"
    /\ prev.status = "created"
    /\ prev.user_id = req.user_id /\ prev.book_id = req.book_id
    /\ prev.rating = 5 /\ req.rating = 3
    /\ KeyCount(ratings, req.user_id, req.book_id) = 1

\* what the documents of one book hold, counted from the collection itself
DocsWith(coll, b, r) ==
    Cardinality({i \in DOMAIN coll : coll[i].book_id = b /\ coll[i].rating = r})

RECURSIVE SumOver(_, _)
\* the sum of f[x] over x in S
SumOver(S, f) ==
    IF S = {} THEN 0
    ELSE LET x == CHOOSE y \in S : TRUE IN f[x] + SumOver(S \ {x}, f)

\* C5: the summary's histogram has exactly the buckets 1..5, each the number
\* of the book's documents with that rating; count is their sum, avg is
\* round(sum(r*c)/count, 3), and 0.0 with count 0 when the book has none;
\* ratings outside [1,5] enter neither count, sum nor histogram.
C5_SummaryTotals ==
    req.op = "ratings_summary" =>
        LET b == req.book_id
            h == resp.body.histogram
            n == SumOver(Buckets, [r \in Buckets |-> DocsWith(ratings, b, r)])
            w == SumOver(Buckets, [r \in Buckets |-> r * DocsWith(ratings, b, r)])
        IN /\ resp.status_code = 200
           /\ DOMAIN h = Buckets
           /\ \A r \in Buckets : h[r] = DocsWith(ratings, b, r)
           /\ SumOver(Buckets, h) = resp.body.count
           /\ resp.body.count = n
           /\ resp.body.avg = IF n = 0 THEN 0 ELSE Round3(w, n)

C5_Witness ==
    /\ req.op = "ratings_summary"
    /\ resp.body.count = 2
    /\ resp.body.avg = 4500
    /\ \E i \in DOMAIN ratings :
          ratings[i].book_id = req.book_id /\ ratings[i].rating \notin Buckets

\* C6: POST /ratings with the x-api-key header missing or different from
\* the configured key is answered 401 and leaves the collection as it was
\* (stated for requests whose body is well formed).
C6_Unauthorized401 ==
    [][(UpsertStep /\ req'.rating \in Buckets /\ req'.x_api_key # Some(API_KEY)) =>
        (resp'.status_code = 401 /\ ratings' = ratings)]_vars

\* C10: from an empty collection, the summary of a book counts the distinct
\* users whose upserts for it succeeded, each under the user's latest rating.
C10_LatestRatingCounts ==
    req.op = "ratings_summary" =>
        LET b == req.book_id
            raters == {u \in Users : latest[<<u, b>>] # 0}
            h == resp.body.histogram
        IN /\ resp.body.count = Cardinality(raters)
           /\ DOMAIN h = Buckets
           /\ \A r \in Buckets :
                 h[r] = Cardinality({u \in raters : latest[<<u, b>>] = r})
           /\ resp.body.avg =
                 IF raters = {} THEN 0
                 ELSE Round3(SumOver(raters, [u \in raters |-> latest[<<u, b>>]]),
                             Cardinality(raters))

C10_Witness ==
    /\ req = [op |-> "ratings_summary", book_id |-> 1]
    /\ prev = [op |-> "upsert_rating", user_id |-> 7, book_id |-> 1,
               rating |-> 3, status |-> "updated"]
    /\ latest[<<8, 1>>] = 0
    /\ resp.body = [avg |-> 3000, count |-> 1,
                    histogram |-> [r \in Buckets |-> IF r = 3 THEN 1 ELSE 0]]

(***************************************************************************)
(* Properties of the listing endpoints                                     *)
(***************************************************************************)
ListingOps == {"list_books", "book_tags", "author_books", "list_tags", "user_to_read"}

\* a listing request has been answered
ListingAnswered == req.op \in ListingOps /\ resp # Idle

ValidPagination(r) == r.page >= 1 /\ r.page_size >= 1 /\ r.page_size <= MaxPageSize

\* sort and order, where the request has them, are among the accepted names
ValidEnums(r) == r.op = "list_books" => r.sort \in SortNames /\ r.order \in OrderNames

\* C3: on every listing endpoint, page < 1 or page_size outside [1,100] is
\* answered 400 before any store access; a valid pair passes unchanged.
C3_BadPagination400 ==
    (ListingAnswered /\ ValidEnums(req)) =>
        IF ValidPagination(req)
        THEN /\ resp.status_code \in {200, 404}
             /\ resp.status_code = 200 =>
                  resp.body.page = req.page /\ resp.body.page_size = req.page_size
        ELSE resp.status_code = 400 /\ store_calls = 0

\* no insert reached the catalog while the request was served
QuietStore == Cardinality(seen) = 1

\* C4: with valid pagination every listing endpoint returns no more than
\* page_size items, whatever the store holds (stated for a store that no
\* insert reached while the request was served).
C4_AtMostPageSize ==
    (ListingAnswered /\ QuietStore /\ resp.status_code = 200) =>
        Len(resp.body.items) <= req.page_size

\* C7: with valid pagination, a (non-empty) tag that equals no tag_name,
\* case aside, or whose tag has no BookTag rows, gives {items: [], total: 0}
\* whatever the other filters are (stated for a store that no insert
\* reached while the request was served).  Equality of names is the
\* character-by-character comparison the property states, which reads every
\* character of the tag literally; the lookup of line 181 is FindTag.
C7_UnknownTagEmpty ==
    LET SameName(s, t) ==
            Len(s) = Len(t) /\ \A i \in 1..Len(s) : Lower(s[i]) = Lower(t[i])
        named == {i \in DOMAIN tags : SameName(tags[i].tag_name, Val(req.tag))}
    IN ( /\ req.op = "list_books" /\ resp # Idle /\ QuietStore
         /\ ValidPagination(req) /\ ValidEnums(req)
         /\ Truthy(req.tag)
         /\ \/ named = {}
            \/ \A i \in named :
                 \A j \in DOMAIN book_tags : book_tags[j].tag_id # tags[i].tag_id )
       => /\ resp.status_code = 200
          /\ resp.body.items = <<>>
          /\ resp.body.total = 0

\* the book d satisfies every filter the request supplies, in a store whose
\* tags and book_tags are tg and bt; q, tag and min_avg are matched the way
\* the store matches them
SatisfiesAll(d, r, tg, bt) ==
    LET hits == {k \in DOMAIN tg : RegexAnchored(Val(r.tag), tg[k].tag_name)}
        first == CHOOSE k \in hits : \A m \in hits : k <= m
    IN /\ Truthy(r.q) =>
            RegexSearch(Val(r.q), d.title) \/ RegexSearch(Val(r.q), d.authors)
       /\ r.min_avg # None => DoubleGte(d.average_rating, Val(r.min_avg))
       /\ r.year_from # None => d.original_publication_year >= Val(r.year_from)
       /\ r.year_to # None => d.original_publication_year <= Val(r.year_to)
       /\ Truthy(r.tag) =>
            /\ hits # {}
            /\ \E j \in DOMAIN bt :
                 /\ bt[j].tag_id = tg[first].tag_id
                 /\ bt[j].goodreads_book_id = d.goodreads_book_id

\* a sorts strictly before b under the request's sort and order
SortsBefore(a, b, r) ==
    LET f == sort_map[r.sort]
    IN IF r.order = "asc" THEN FieldLess(f, a[f], b[f]) ELSE FieldLess(f, b[f], a[f])

\* the answer's total is the number of books satisfying all supplied filters
\* in the catalog of sizes s, and its items are the window
\* [(page-1)*page_size, (page-1)*page_size + page_size) of those books in
\* the order of the mapped sort field, descending unless order = asc
TotalAndWindowAt(s) ==
    LET bk == SubSeq(books, 1, s.books)
        tg == SubSeq(tags, 1, s.tags)
        bt == SubSeq(book_tags, 1, s.book_tags)
        hit == {i \in DOMAIN bk : SatisfiesAll(bk[i], req, tg, bt)}
        items == resp.body.items
        offset == (req.page - 1) * req.page_size
    IN /\ resp.body.total = Cardinality(hit)
       /\ Len(items) = Max(0, Min(req.page_size, Cardinality(hit) - offset))
       /\ \A j \in DOMAIN items :
            /\ \E i \in hit : items[j] = to_safe(bk[i])
            /\ \A k \in DOMAIN items : items[k] = items[j] => k = j
            /\ Cardinality({i \in hit : SortsBefore(bk[i], items[j], req)})
                 <= offset + j - 1
            /\ offset + j - 1 <
                 Cardinality({i \in hit : ~SortsBefore(items[j], bk[i], req)})

ListBooksAnswered == req.op = "list_books" /\ resp # Idle /\ resp.status_code = 200

\* C8: on a store that no insert reaches while the request is served, the
\* total list_books answers is the number of books satisfying all supplied
\* filters, whatever the page and page_size, and its items are the window
\* [(page-1)*page_size, (page-1)*page_size + page_size) of those books in
\* the order of the mapped sort field, descending unless order = asc.
C8_TotalAndWindow ==
    (ListBooksAnswered /\ QuietStore) => \A s \in seen : TotalAndWindowAt(s)

C8_Witness ==
    /\ ListBooksAnswered /\ QuietStore
    /\ Truthy(req.tag) /\ Truthy(req.q) /\ req.min_avg = Some(Num(4, 0))
    /\ req.sort = "title" /\ req.order = "asc"
    /\ req.page = 2 /\ req.page_size = 1
    /\ Len(books) = 2
    /\ resp.body.total = 2
    /\ Len(resp.body.items) = 1
    /\ resp.body.items[1].book_id = 2

(***************************************************************************)
(* Properties of the loader                                                *)
(***************************************************************************)
Parses(cell) == cell.t = "num"

\* the columns of a source that the loader types as one of the given kinds
TypedCols(name, kinds) ==
    {c \in DOMAIN dtype_map[name] \cap frames[name].columns : dtype_map[name][c] \in kinds}

\* the fetched rows whose integer columns all parse, in the order of the CSV
Survivors(name) ==
    SelectSeq(frames[name].rows,
              LAMBDA row : \A c \in TypedCols(name, {"long"}) : Parses(row[c]))

\* C9 (as the claim has it): every document comes from a row whose values
\* in the columns typed 'long' and 'double' all parse; no other row is
\* ever inserted.
C9_UnparsedNeverInserted ==
    \A n \in DOMAIN arr :
        \A j \in DOMAIN Coll(arr[n]) :
            \E i \in DOMAIN frames[arr[n]].rows :
                LET row == frames[arr[n]].rows[i]
                IN /\ \A c \in TypedCols(arr[n], {"long", "double"}) : Parses(row[c])
                   /\ \A c \in TypedCols(arr[n], {"long"}) :
                        Coll(arr[n])[j][c] = row[c].whole
                   /\ \A c \in TypedCols(arr[n], {"double"}) :
                        Coll(arr[n])[j][c] = row[c]

\* C9 (amended): a row with a value that fails to parse in a column typed
\* 'long' is never inserted; every other row is inserted once per run, in
\* order, its 'long' values as integers and an unparseable 'double' as NaN.
C9_LongDroppedDoubleKept ==
    \A n \in DOMAIN arr :
        LET name == arr[n]
            coll == Coll(name)
            kept == Survivors(name)
            full == IF ldr.pc = "loading" /\ ldr.i <= n THEN ldr.run - 1 ELSE ldr.run
            part == IF ldr.pc = "loading" /\ ldr.i = n THEN ldr.k ELSE 0
        IN /\ Len(coll) = full * Len(kept) + part
           /\ \A j \in DOMAIN coll :
                LET src == kept[((j - 1) % Len(kept)) + 1]
                IN /\ \A c \in TypedCols(name, {"long"}) :
                        coll[j][c] = src[c].whole
                   /\ \A c \in TypedCols(name, {"double"}) :
                        coll[j][c] = IF Parses(src[c]) THEN src[c] ELSE NaN

C9_Witness ==
    /\ ldr.pc = "done" /\ ldr.run = 2
    /\ Len(frames.books.rows) = 2
    /\ Len(books) = 2
    /\ books[1].average_rating = NaN
    /\ book_tags = <<>>
    /\ Len(ratings) = 2 /\ Len(frames.ratings.rows) = 2

====
